---- MODULE Spec2Model ----
(***************************************************************************)
(* sam-dm: a deployment manager.  dm-server keeps Client, Version and      *)
(* UpdateLog rows and an artifact directory; dm-client polls it and runs   *)
(* the update transaction on its host.                                     *)
(*                                                                         *)
(* SpecServer models the server's request handlers, one database           *)
(* statement per step, so that concurrent requests interleave between      *)
(* statements as they do over the connection pool.                         *)
(* SpecAgent models the agent's polling loop and its update transaction    *)
(* over a file system of paths; the server's answers are its inputs.       *)
(***************************************************************************)
EXTENDS Integers, Sequences, FiniteSets, TLC

\* Option::None / SQL NULL.
NULL == "NULL"

\* Version strings in use; every one parses as semver.
Versions == {"1.0.0", "1.1.0"}
\* A string semver::Version::parse rejects.
BadSemver == "v1.2"
\* What an agent can report as current_version (Option<String>).
CurVals == Versions \cup {NULL}
\* Artifact byte strings an operator uploads.
UploadBlobs == {"A", "B"}
\* Multipart file names of an upload (field.file_name()).
FileNames == {NULL, "app.tar.gz"}
\* X-API-Key header values: none, the key of client 1, a key of no client.
BogusKey == "bogus"

\* ---- bounds of the server model
MaxClients == 1
MaxCheckins == 2
MaxReports == 1
MaxUploads == 2
MaxDeploys == 2
MaxInFlight == 2
MaxDownloads == 1
MaxLogs == 2
MaxLogOps == 3
MaxConfigPuts == 1

VARIABLES
    clients,      \* table clients: sequence of rows, id = index
    client_configs, \* column clients.config, by client id
    versions,     \* table versions: sequence of rows
    artifacts,    \* artifact_dir: file name -> bytes
    update_logs,  \* table update_logs: sequence of rows
    handlers,     \* request handlers in flight or answered, by slot
    nreq,         \* requests accepted so far, by kind
    nadmin,       \* deploy requests so far
    adminResp,    \* the last admin response
    reported      \* history: per client, the version of the last success report
                  \* recorded since the last deploy to that client (NULL: none)

srvVars == <<clients, client_configs, versions, artifacts, update_logs, handlers, nreq, nadmin,
             adminResp, reported>>

\* ---- bounds of the agent model
MaxPolls == 3
\* The longest path the file system accepts, in components (PATH_MAX).
PathMax == 6

VARIABLES
    args,         \* the command line of `dm-client apply`
    media,        \* what the paths of the command line hold: artifact, manifest.json
    config,       \* the agent's Config, read once at startup
    fs,           \* the host's file system: path -> node
    apc,          \* the polling task's position
    txn,          \* perform_update's arguments and locals, and the result
    npoll,        \* iterations of the polling loop so far
    sent,         \* history: the last request the agent sent
    restarts,     \* history: runs of the restart command in this transaction
    pre           \* history: the file system when the transaction began

agtVars == <<args, media, config, fs, apc, txn, npoll, sent, restarts, pre>>

vars == <<srvVars, agtVars>>

Slots == 1..MaxInFlight

\* SHA-256 of a byte string, as lowercase hex (format!("{:x}")): collision free.
Sha256(data) == "sha256:" \o data

\* ---------------------------------------------------------------- db/mod.rs

\* generate_api_key: 32 random bytes; the n-th key differs from the others.
generate_api_key(n) == "key" \o ToString(n)

register_client(tbl, api_key) ==
    Append(tbl, [api_key |-> api_key, current_version |-> NULL,
                 target_version |-> NULL, status |-> "offline",
                 last_seen |-> 0])

\* SELECT * FROM clients WHERE api_key = $1: the id, or 0 when no row matches.
get_client_by_api_key(tbl, api_key) ==
    IF \E i \in DOMAIN tbl : tbl[i].api_key = api_key
    THEN CHOOSE i \in DOMAIN tbl : tbl[i].api_key = api_key
    ELSE 0

get_client_by_id(tbl, id) == IF id \in DOMAIN tbl THEN id ELSE 0

\* An UPDATE that binds the request's value without COALESCE (a variant used to
\* show that keeping the stored version depends on the COALESCE).
Coalesce_overwrite(a, b) == a

\* COALESCE($2, current_version)
Coalesce(a, b) == IF a # NULL THEN a ELSE b

\* A check-in write that also clears a target equal to the reported version (a
\* variant used to show that the stale-target property depends on check-in
\* leaving target_version alone).
update_client_checkin_clear(tbl, id, current_version, status, now) ==
    [tbl EXCEPT ![id] = [@ EXCEPT
        !.current_version = IF current_version # NULL THEN current_version ELSE @,
        !.target_version = IF current_version = tbl[id].target_version THEN NULL ELSE @,
        !.status = status,
        !.last_seen = now]]

update_client_checkin(tbl, id, current_version, status, now) ==
    [tbl EXCEPT ![id] = [@ EXCEPT
        !.current_version = Coalesce(current_version, @),
        !.status = status,
        !.last_seen = now]]

set_client_target_version(tbl, id, target_version) ==
    [tbl EXCEPT ![id].target_version = target_version]

\* Option<Version>::None
NoVersion == [version |-> NULL, artifact_path |-> NULL, checksum |-> NULL,
              is_active |-> FALSE]

\* A lookup that takes the first row for any version string.
get_version_first(tbl, version) == IF tbl = <<>> THEN NoVersion ELSE tbl[1]

\* A lookup that finds no version.
get_version_none(tbl, version) == NoVersion

\* SELECT * FROM versions WHERE version = $1, fetch_optional: the first row or None.
get_version(tbl, version) ==
    IF \E i \in DOMAIN tbl : tbl[i].version = version
    THEN tbl[CHOOSE i \in DOMAIN tbl :
                /\ tbl[i].version = version
                /\ \A j \in DOMAIN tbl : tbl[j].version = version => i <= j]
    ELSE NoVersion

create_version(tbl, version, artifact_path, checksum) ==
    Append(tbl, [version |-> version, artifact_path |-> artifact_path,
                 checksum |-> checksum, is_active |-> TRUE])

\* A create_update_log that inserts nothing (a variant used to show that the
\* log-per-directive property depends on the insert).
create_update_log_none(tbl, client_id, from_version, to_version) == tbl

create_update_log(tbl, client_id, from_version, to_version) ==
    Append(tbl, [client_id |-> client_id, from_version |-> from_version,
                 to_version |-> to_version, status |-> "pending",
                 error_message |-> NULL, completed_at |-> NULL])

\* db::update_log_status without the completion time (a variant used to show
\* that the completion-time property depends on it).
update_log_status_no_stamp(tbl, log_id, status, error_message, now) ==
    IF log_id \notin DOMAIN tbl THEN tbl
    ELSE [tbl EXCEPT ![log_id].status = status,
                     ![log_id].error_message = error_message,
                     ![log_id].completed_at = NULL]

\* The status strings of an update log (models.rs).
LogStatuses == {"pending", "downloading", "installing", "completed", "failed", "rolled_back"}

\* db::update_log_status: one UPDATE by id of status, error_message and
\* completed_at; completed_at is the current time for the three finishing
\* statuses and NULL otherwise. A log_id without a row updates nothing.
update_log_status(tbl, log_id, status, error_message, now) ==
    LET completed_at == IF status = "completed" \/ status = "failed" \/ status = "rolled_back"
                        THEN ToString(now) ELSE NULL
    IN IF log_id \notin DOMAIN tbl THEN tbl
       ELSE [tbl EXCEPT ![log_id].status = status,
                        ![log_id].error_message = error_message,
                        ![log_id].completed_at = completed_at]

\* ------------------------------------------------------------ api/polling.rs

\* An authentication that takes any key, present or not, for the first client's.
Authenticate_any(tbl, key) == IF tbl = <<>> THEN 0 ELSE 1

\* extract_api_key and get_client_by_api_key: the client id, or 0 for 401.
Authenticate(tbl, key) ==
    IF key = NULL THEN 0 ELSE get_client_by_api_key(tbl, key)

\* needs_update without the arm for an absent current_version.
needs_update_present_only(target, current) ==
    target # NULL /\ current # NULL /\ target # current

\* needs_update that asks for an update whenever a target is set.
needs_update_any_target(target, current) == target # NULL

\* checkin: let needs_update = match (&client.target_version, &req.current_version)
needs_update(target, current) ==
    CASE target # NULL /\ current # NULL -> target # current
      [] target # NULL /\ current = NULL -> TRUE
      [] OTHER -> FALSE

\* The success UPDATE without the status column.
mark_success_no_status(tbl, id, version) ==
    [tbl EXCEPT ![id] = [@ EXCEPT !.current_version = version,
                                  !.target_version = NULL]]

\* The success UPDATE that leaves target_version as it is.
mark_success_keep_target(tbl, id, version) ==
    [tbl EXCEPT ![id] = [@ EXCEPT !.current_version = version,
                                  !.status = "online"]]

\* report_update_result, success: one UPDATE statement.
mark_success(tbl, id, version) ==
    [tbl EXCEPT ![id] = [@ EXCEPT !.current_version = version,
                                  !.target_version = NULL,
                                  !.status = "online"]]

\* The failure UPDATE that also withdraws the target.
mark_error_clear_target(tbl, id) ==
    [tbl EXCEPT ![id] = [@ EXCEPT !.status = "error", !.target_version = NULL]]

\* report_update_result, failure: one UPDATE statement.
mark_error(tbl, id) == [tbl EXCEPT ![id].status = "error"]

Unauthorized == [code |-> 401, action |-> NULL, target_version |-> NULL,
                 artifact_url |-> NULL, checksum |-> NULL]
RespNone == [code |-> 200, action |-> "none", target_version |-> NULL,
             artifact_url |-> NULL, checksum |-> NULL]
RespUpdate(ver) ==
    [code |-> 200, action |-> "update", target_version |-> ver.version,
     artifact_url |-> "/api/artifacts/" \o ver.version,
     checksum |-> ver.checksum]
RespStatus(code) == [code |-> code, action |-> NULL, target_version |-> NULL,
                     artifact_url |-> NULL, checksum |-> NULL]

\* A handler slot: the request, the handler's position and locals, the response.
\* models.rs ClientConfig: seven optional fields; a field is NULL or set.
ConfigFields == {"service_dir", "restart_command", "pre_update_script",
                 "post_update_script", "health_check_url", "health_check_timeout",
                 "rollback_on_failure"}
EmptyConfig == [f \in ConfigFields |-> NULL]

\* Option<ClientConfig>: None, or Some(cfg).
None == [some |-> FALSE, cfg |-> EmptyConfig]
Some(cfg) == [some |-> TRUE, cfg |-> cfg]

\* checkin: the config member of the response, from the client row read at the
\* lookup.
config_option(client_config) ==
    IF client_config.service_dir # NULL \/ client_config.restart_command # NULL
    THEN Some(client_config) ELSE None

IdleHandler ==
    [kind |-> "idle", pc |-> "idle", rid |-> 0, key |-> NULL,
     cur |-> NULL, status |-> NULL, version |-> NULL, success |-> FALSE,
     blob |-> NULL, fname |-> NULL,
     client |-> 0, target |-> NULL, config |-> EmptyConfig, ver |-> NoVersion,
     after |-> NULL, resp |-> RespStatus(0), resp_config |-> None]

\* A new request is served in the first slot that serves none.
Free(h) ==
    /\ handlers[h].pc \in {"idle", "done"}
    /\ \A g \in Slots : g < h => handlers[g].pc \notin {"idle", "done"}

\* Requests accepted so far: the time of the next one.
Total(n) == n.checkin + n.report + n.upload

\* The response is sent and the handler's locals are dropped; the slot keeps the
\* request's current_version and the history field for the record.
Answer(h, resp) ==
    handlers' = [handlers EXCEPT ![h] =
        [IdleHandler EXCEPT !.kind = handlers[h].kind, !.pc = "done", !.resp = resp,
                            !.resp_config =
                                IF handlers[h].kind = "checkin" /\ resp.code = 200
                                THEN config_option(handlers[h].config) ELSE None,
                            !.cur = handlers[h].cur, !.after = handlers[h].after]]

\* POST /api/checkin arrives.
RecvCheckin(h, key, cur, status) ==
    /\ Free(h) /\ nreq.checkin < MaxCheckins
    /\ nreq' = [nreq EXCEPT !.checkin = @ + 1]
    /\ handlers' = [handlers EXCEPT ![h] =
          [IdleHandler EXCEPT !.kind = "checkin", !.pc = "auth", !.rid = Total(nreq) + 1,
                              !.key = key, !.cur = cur, !.status = status]]
    /\ UNCHANGED <<clients, versions, artifacts, update_logs, nadmin, adminResp, reported>>
    /\ UNCHANGED client_configs
    /\ UNCHANGED agtVars

\* POST /api/update-result arrives.
RecvReport(h, key, version, success) ==
    /\ Free(h) /\ nreq.report < MaxReports
    /\ nreq' = [nreq EXCEPT !.report = @ + 1]
    /\ handlers' = [handlers EXCEPT ![h] =
          [IdleHandler EXCEPT !.kind = "report", !.pc = "auth", !.rid = Total(nreq) + 1,
                              !.key = key, !.version = version, !.success = success]]
    /\ UNCHANGED <<clients, versions, artifacts, update_logs, nadmin, adminResp, reported>>
    /\ UNCHANGED client_configs
    /\ UNCHANGED agtVars

\* checkin and report_update_result: the API key and the client row read.
Auth(h) ==
    /\ handlers[h].pc = "auth"
    /\ handlers[h].kind \in {"checkin", "report"}
    /\ LET id == Authenticate(clients, handlers[h].key) IN
       IF id = 0
       THEN Answer(h, Unauthorized)
       ELSE handlers' = [handlers EXCEPT ![h] =
               [@ EXCEPT !.pc = "write", !.client = id,
                         !.target = clients[id].target_version,
                         !.config = client_configs[id],
                         !.after = reported[id]]]
    /\ UNCHANGED <<clients, versions, artifacts, update_logs, nreq, nadmin, adminResp, reported>>
    /\ UNCHANGED client_configs
    /\ UNCHANGED agtVars

\* checkin: db::update_client_checkin.
CheckinUpdate(h) ==
    /\ handlers[h].kind = "checkin" /\ handlers[h].pc = "write"
    /\ clients' = update_client_checkin(clients, handlers[h].client, handlers[h].cur,
                                        handlers[h].status, handlers[h].rid)
    /\ handlers' = [handlers EXCEPT ![h].pc = "decide"]
    /\ UNCHANGED <<versions, artifacts, update_logs, nreq, nadmin, adminResp, reported>>
    /\ UNCHANGED client_configs
    /\ UNCHANGED agtVars

\* checkin: needs_update, then db::get_version of the target.
CheckinDecide(h) ==
    /\ handlers[h].kind = "checkin" /\ handlers[h].pc = "decide"
    /\ IF needs_update(handlers[h].target, handlers[h].cur)
       THEN LET ver == get_version(versions, handlers[h].target) IN
            IF ver # NoVersion
            THEN handlers' = [handlers EXCEPT ![h] = [@ EXCEPT !.pc = "log", !.ver = ver]]
            ELSE Answer(h, RespNone)
       ELSE Answer(h, RespNone)
    /\ UNCHANGED <<clients, versions, artifacts, update_logs, nreq, nadmin, adminResp, reported>>
    /\ UNCHANGED client_configs
    /\ UNCHANGED agtVars

\* checkin: db::create_update_log, then the update directive.
CheckinLog(h) ==
    /\ handlers[h].kind = "checkin" /\ handlers[h].pc = "log"
    /\ update_logs' = create_update_log(update_logs, handlers[h].client,
                                        handlers[h].cur, handlers[h].target)
    /\ Answer(h, RespUpdate(handlers[h].ver))
    /\ UNCHANGED <<clients, versions, artifacts, nreq, nadmin, adminResp, reported>>
    /\ UNCHANGED client_configs
    /\ UNCHANGED agtVars

\* report_update_result: the UPDATE of the client row and the answer.
ReportWrite(h) ==
    /\ handlers[h].kind = "report" /\ handlers[h].pc = "write"
    /\ LET id == handlers[h].client IN
       IF handlers[h].success
       THEN /\ clients' = mark_success(clients, id, handlers[h].version)
            /\ reported' = [reported EXCEPT ![id] = handlers[h].version]
       ELSE /\ clients' = mark_error(clients, id)
            /\ UNCHANGED reported
    /\ Answer(h, RespStatus(200))
    /\ UNCHANGED <<versions, artifacts, update_logs, nreq, nadmin, adminResp>>
    /\ UNCHANGED client_configs
    /\ UNCHANGED agtVars

\* ------------------------------------------------------------ api/versions.rs

\* semver::Version::parse
IsSemver(s) == s \in Versions

\* file_name.rsplit('.').next(), or "tar.gz" without a file name.
FileExt(fname) == IF fname = NULL THEN "tar.gz" ELSE "gz"

\* format!("{}.{}", version_str, file_ext)
ArtifactFilename(version, fname) == version \o "." \o FileExt(fname)

\* File::create + write_all: the file is created or overwritten.
WriteFile(dir, name, data) ==
    [n \in DOMAIN dir \cup {name} |-> IF n = name THEN data ELSE dir[n]]

\* The versions table's UNIQUE(version) constraint refuses the INSERT.
UniqueViolation(tbl, version) == get_version(tbl, version) # NoVersion

\* POST /api/versions arrives, its multipart form parsed.
RecvUpload(h, version, blob, fname) ==
    /\ Free(h) /\ nreq.upload < MaxUploads
    /\ nreq' = [nreq EXCEPT !.upload = @ + 1]
    /\ handlers' = [handlers EXCEPT ![h] =
          [IdleHandler EXCEPT !.kind = "upload", !.pc = "check", !.rid = Total(nreq) + 1,
                              !.version = version, !.blob = blob, !.fname = fname]]
    /\ UNCHANGED <<clients, versions, artifacts, update_logs, nadmin, adminResp, reported>>
    /\ UNCHANGED client_configs
    /\ UNCHANGED agtVars

\* upload_version: semver validation and the existence check.
UploadCheck(h) ==
    /\ handlers[h].kind = "upload" /\ handlers[h].pc = "check"
    /\ IF ~IsSemver(handlers[h].version) THEN Answer(h, RespStatus(400))
       ELSE IF get_version(versions, handlers[h].version) # NoVersion
            THEN Answer(h, RespStatus(409))
            ELSE handlers' = [handlers EXCEPT ![h].pc = "file"]
    /\ UNCHANGED <<clients, versions, artifacts, update_logs, nreq, nadmin, adminResp, reported>>
    /\ UNCHANGED client_configs
    /\ UNCHANGED agtVars

\* upload_version: the artifact file is written.
UploadWrite(h) ==
    /\ handlers[h].kind = "upload" /\ handlers[h].pc = "file"
    /\ artifacts' = WriteFile(artifacts,
                              ArtifactFilename(handlers[h].version, handlers[h].fname),
                              handlers[h].blob)
    /\ handlers' = [handlers EXCEPT ![h].pc = "insert"]
    /\ UNCHANGED <<clients, versions, update_logs, nreq, nadmin, adminResp, reported>>
    /\ UNCHANGED client_configs
    /\ UNCHANGED agtVars

\* upload_version: db::create_version with the checksum computed by the server.
UploadInsert(h) ==
    /\ handlers[h].kind = "upload" /\ handlers[h].pc = "insert"
    /\ IF UniqueViolation(versions, handlers[h].version)
       THEN /\ Answer(h, RespStatus(500))
            /\ UNCHANGED versions
       ELSE /\ versions' = create_version(versions, handlers[h].version,
                               ArtifactFilename(handlers[h].version, handlers[h].fname),
                               Sha256(handlers[h].blob))
            /\ Answer(h, RespStatus(200))
    /\ UNCHANGED <<clients, artifacts, update_logs, nreq, nadmin, adminResp, reported>>
    /\ UNCHANGED client_configs
    /\ UNCHANGED agtVars

\* ------------------------------------------------------------ api/artifacts.rs

\* download_artifact: the version's row, then the file at its artifact_path.
download_artifact(vtbl, dir, version) ==
    LET ver == get_version(vtbl, version) IN
    IF ver = NoVersion \/ ver.artifact_path \notin DOMAIN dir
    THEN [code |-> 404, body |-> NULL, checksum |-> NULL]
    ELSE [code |-> 200, body |-> dir[ver.artifact_path], checksum |-> ver.checksum]

\* GET /api/artifacts/:version
DownloadArtifact(version) ==
    /\ nadmin < MaxDownloads
    /\ nadmin' = nadmin + 1
    /\ adminResp' = [op |-> "download", client |-> 0, version |-> version,
                     code |-> download_artifact(versions, artifacts, version).code]
    /\ UNCHANGED <<clients, versions, artifacts, update_logs, handlers, nreq, reported>>
    /\ UNCHANGED client_configs
    /\ UNCHANGED agtVars

\* ------------------------------------------------------------- api/clients.rs

\* POST /api/clients
RegisterClient ==
    /\ Len(clients) < MaxClients
    /\ clients' = register_client(clients, generate_api_key(Len(clients) + 1))
    /\ reported' = Append(reported, NULL)
    /\ adminResp' = [op |-> "register", client |-> Len(clients) + 1,
                     version |-> NULL, code |-> 200]
    /\ client_configs' = Append(client_configs, EmptyConfig)
    /\ UNCHANGED <<versions, artifacts, update_logs, handlers, nreq, nadmin>>
    /\ UNCHANGED agtVars

\* POST /api/clients/:id/deploy.  The rows it reads are never deleted, so the
\* handler's three statements act as one.
DeployToClient(id, version) ==
    /\ nadmin < MaxDeploys
    /\ nadmin' = nadmin + 1
    /\ IF get_client_by_id(clients, id) = 0 \/ get_version(versions, version) = NoVersion
       THEN /\ adminResp' = [op |-> "deploy", client |-> id, version |-> version,
                             code |-> 404]
            /\ UNCHANGED <<clients, reported>>
       ELSE /\ clients' = set_client_target_version(clients, id, version)
            /\ reported' = [reported EXCEPT ![id] = NULL]
            /\ adminResp' = [op |-> "deploy", client |-> id, version |-> version,
                             code |-> 200]
    /\ UNCHANGED <<versions, artifacts, update_logs, handlers, nreq>>
    /\ UNCHANGED client_configs
    /\ UNCHANGED agtVars

\* ------------------------------------------------------------- the server

\* PUT /api/clients/:id/config: update_client_config; 404 without the client.
UpdateClientConfig(id, cfg) ==
    /\ nadmin < MaxConfigPuts
    /\ nadmin' = nadmin + 1
    /\ IF get_client_by_id(clients, id) = 0
       THEN /\ adminResp' = [op |-> "config", client |-> id, version |-> NULL, code |-> 404]
            /\ UNCHANGED client_configs
       ELSE /\ client_configs' = [client_configs EXCEPT ![id] = cfg]
            /\ adminResp' = [op |-> "config", client |-> id, version |-> NULL, code |-> 200]
    /\ UNCHANGED <<clients, versions, artifacts, update_logs, handlers, nreq, reported>>
    /\ UNCHANGED agtVars

Keys == {NULL, BogusKey} \cup {generate_api_key(i) : i \in 1..MaxClients}

\* The catalog after the operator uploaded blob "A" as 1.0.0 and "B" as 1.1.0.
SeedVersions ==
    create_version(
        create_version(<<>>, "1.0.0", ArtifactFilename("1.0.0", NULL), Sha256("A")),
        "1.1.0", ArtifactFilename("1.1.0", NULL), Sha256("B"))
SeedArtifacts ==
    WriteFile(WriteFile(<<>>, ArtifactFilename("1.0.0", NULL), "A"),
              ArtifactFilename("1.1.0", NULL), "B")

\* A version string that is valid semver and was never uploaded.
MissingVersion == "2.0.0"

ServerInit ==
    /\ clients = <<>>
    /\ client_configs = <<>>
    /\ versions = SeedVersions
    /\ artifacts = SeedArtifacts
    /\ update_logs = <<>>
    /\ handlers = [h \in Slots |-> IdleHandler]
    /\ nreq = [checkin |-> 0, report |-> 0, upload |-> 0]
    /\ nadmin = 0
    /\ adminResp = [op |-> "none", client |-> 0, version |-> NULL, code |-> 0]
    /\ reported = <<>>

NextServer ==
    \/ \E h \in Slots, key \in Keys, cur \in CurVals :
          RecvCheckin(h, key, cur, "online")
    \/ \E h \in Slots, key \in Keys, v \in Versions, ok \in BOOLEAN :
          RecvReport(h, key, v, ok)
    \/ \E h \in Slots : Auth(h)
    \/ \E h \in Slots : CheckinUpdate(h)
    \/ \E h \in Slots : CheckinDecide(h)
    \/ \E h \in Slots : CheckinLog(h)
    \/ \E h \in Slots : ReportWrite(h)
    \/ RegisterClient
    \/ \E id \in 1..MaxClients, v \in Versions \cup {MissingVersion} :
          DeployToClient(id, v)


\* ============================================================== dm-client

\* ---- the file system (std::fs).  A path is a sequence of components; the
\* root <<>> always exists.
Dir == [kind |-> "dir", data |-> NULL]
File(data) == [kind |-> "file", data |-> data]
Ok(f) == [ok |-> TRUE, fs |-> f]
Err(f) == [ok |-> FALSE, fs |-> f]

IsPrefix(p, q) == Len(p) <= Len(q) /\ SubSeq(q, 1, Len(p)) = p

\* Path::exists
Exists(f, p) == p = <<>> \/ p \in DOMAIN f
IsDir(f, p) == p = <<>> \/ (p \in DOMAIN f /\ f[p].kind = "dir")

\* fs::remove_dir_all
RemoveDirAll(f, p) == [q \in {q \in DOMAIN f : ~IsPrefix(p, q)} |-> f[q]]

\* fs::create_dir_all: fails on a path that is too long or runs through a file.
CreateDirAll(f, p) ==
    LET pre_ == {SubSeq(p, 1, n) : n \in 1..Len(p)} IN
    IF Len(p) > PathMax \/ \E q \in pre_ : q \in DOMAIN f /\ f[q].kind = "file"
    THEN Err(f)
    ELSE Ok([q \in DOMAIN f \cup pre_ |-> IF q \in DOMAIN f THEN f[q] ELSE Dir])

\* fs::write and fs::copy's destination: the parent must be a directory.
WriteAt(f, p, data) ==
    IF Len(p) > PathMax \/ ~IsDir(f, SubSeq(p, 1, Len(p) - 1)) \/ IsDir(f, p)
    THEN Err(f)
    ELSE Ok([q \in DOMAIN f \cup {p} |-> IF q = p THEN File(data) ELSE f[q]])

RECURSIVE SetToSeq(_)
SetToSeq(S) ==
    IF S = {} THEN <<>>
    ELSE LET x == CHOOSE x \in S : TRUE IN <<x>> \o SetToSeq(S \ {x})

\* fs::read_dir: the entries of p, in the order the directory lists them.
ReadDir(f, p) ==
    SetToSeq({q[Len(p) + 1] : q \in {q \in DOMAIN f : Len(q) = Len(p) + 1 /\ IsPrefix(p, q)}})

\* updater.rs copy_dir_recursive: create dst, then copy src's entries one by one,
\* descending into directories; the first error ends the copy.
RECURSIVE CopyDirRecursive(_, _, _)
RECURSIVE CopyEntries(_, _, _, _)
CopyDirRecursive(f, src, dst) ==
    LET c == CreateDirAll(f, dst) IN
    IF ~c.ok THEN c ELSE CopyEntries(c.fs, src, dst, ReadDir(c.fs, src))
CopyEntries(f, src, dst, names) ==
    IF names = <<>> THEN Ok(f)
    ELSE LET n == Head(names)
             r == IF f[src \o <<n>>].kind = "dir"
                  THEN CopyDirRecursive(f, src \o <<n>>, dst \o <<n>>)
                  ELSE WriteAt(f, dst \o <<n>>, f[src \o <<n>>].data)
         IN IF ~r.ok THEN r ELSE CopyEntries(r.fs, src, dst, Tail(names))

\* The subtree under p, with paths relative to p: what a directory holds.
Tree(f, p) ==
    [q \in {SubSeq(q, Len(p) + 1, Len(q)) : q \in {q \in DOMAIN f : IsPrefix(p, q) /\ q # p}}
        |-> f[p \o q]]

\* ---- artifacts: a gzip-compressed tar archive is a list of entries, or bytes
\* that are no archive.  "/" is a path's root component, ".." its parent one.
AgentBlobs == {"A", "P", "E", "X"}
IsArchive(data) == data \in {"A", "B", "P", "E"}
Entries(data) ==
    CASE data = "A" -> << [path |-> <<"app">>, data |-> "A"] >>
      [] data = "B" -> << [path |-> <<"app">>, data |-> "B"] >>
      [] data = "P" -> << [path |-> <<"pkg", "app">>, data |-> "P"] >>
      [] data = "E" -> << [path |-> <<"..", "evil">>, data |-> "E"],
                          [path |-> <<"/", "abs">>, data |-> "E"],
                          [path |-> <<"app">>, data |-> "E"] >>
      [] OTHER -> <<>>
HasUnsafeEntry(data) ==
    \E i \in DOMAIN Entries(data) :
        ".." \in {Entries(data)[i].path[k] : k \in DOMAIN Entries(data)[i].path}
        \/ Entries(data)[i].path[1] = "/"

\* tar Entry::unpack_in: an entry with a ".." component is skipped; root and "."
\* components are dropped; the rest is written under dst.
RECURSIVE UnpackEntries(_, _, _)
UnpackEntries(f, dst, entries) ==
    IF entries = <<>> THEN Ok(f)
    ELSE LET e == Head(entries)
             comps == SelectSeq(e.path, LAMBDA c : c \notin {"/", "."})
             r == IF \E k \in DOMAIN e.path : e.path[k] = ".." THEN Ok(f)
                  ELSE IF comps = <<>> THEN Ok(f)
                  ELSE LET d == CreateDirAll(f, dst \o SubSeq(comps, 1, Len(comps) - 1)) IN
                       IF ~d.ok THEN d ELSE WriteAt(d.fs, dst \o comps, e.data)
         IN IF ~r.ok THEN r ELSE UnpackEntries(r.fs, dst, Tail(entries))

\* GzDecoder + Archive::unpack
Unpack(f, dst, data) ==
    IF ~IsArchive(data) THEN Err(f) ELSE UnpackEntries(f, dst, Entries(data))



\* ---- config.rs: DM_SERVICE_DIR and DM_BACKUP_DIR are any two paths; the
\* defaults are ./service and ./backups.
Layouts ==
    { [service_dir |-> <<"service">>, backup_dir |-> <<"backups">>],
      [service_dir |-> <<"service">>, backup_dir |-> <<"service", "backups">>] }

\* TempDir::new(): a fresh directory under the system's temporary directory.
TempPath == <<"tmp">>

VERSION_FILE == ".dm-version"
\* The placeholder perform_update uses when .dm-version cannot be read.
Unknown == "unknown"

\* str::trim of a .dm-version's content.
Trim(str) ==
    CASE str = "1.0.0\n" -> "1.0.0"
      [] str = " 1.1.0" -> "1.1.0"
      [] OTHER -> str

\* ---- updater.rs

\* A checksum verification that accepts everything.
verify_checksum_accept(data, expected) == TRUE

\* verify_checksum: the hex SHA-256 of the data against the expected string.
verify_checksum(data, expected) == Sha256(data) = expected

\* backup_current: [ok, fs, path]; path "" when there is no service directory.
\* io: create_dir_all(backup_dir) fails.
backup_current(f, cfg, version, timestamp, io) ==
    IF ~Exists(f, cfg.service_dir) THEN [ok |-> TRUE, fs |-> f, path |-> <<>>]
    ELSE LET c == IF io THEN Err(f) ELSE CreateDirAll(f, cfg.backup_dir)
             backup_path == cfg.backup_dir \o <<"backup_" \o version \o "_" \o timestamp>>
             r == CopyDirRecursive(c.fs, cfg.service_dir, backup_path)
         IN IF ~c.ok THEN [ok |-> FALSE, fs |-> c.fs, path |-> <<>>]
            ELSE [ok |-> r.ok, fs |-> r.fs, path |-> backup_path]

\* find_extracted_root: a single top-level directory is the root.
find_extracted_root(f, temp_path) ==
    LET entries == ReadDir(f, temp_path) IN
    IF Len(entries) = 1 /\ IsDir(f, temp_path \o <<entries[1]>>)
    THEN temp_path \o <<entries[1]>>
    ELSE temp_path

\* extract_and_install.  io names the statement an I/O error stops, if any:
\* "create" (create_dir_all of the service directory), "copy" (the copy into it).
\* The temporary directory is removed when the function returns.
extract_and_install(f, cfg, data, io) ==
    LET t == CreateDirAll(f, TempPath)
        u == Unpack(t.fs, TempPath, data)
        root == find_extracted_root(u.fs, TempPath)
        cleared == IF Exists(u.fs, cfg.service_dir)
                   THEN RemoveDirAll(u.fs, cfg.service_dir) ELSE u.fs
        c == IF io = "create" THEN Err(cleared) ELSE CreateDirAll(cleared, cfg.service_dir)
        r == IF io = "copy" THEN Err(c.fs) ELSE CopyDirRecursive(c.fs, root, cfg.service_dir)
        res == IF ~u.ok THEN u ELSE IF ~c.ok THEN c ELSE r
    IN [ok |-> res.ok, fs |-> RemoveDirAll(res.fs, TempPath)]

\* A rollback that restores nothing and runs nothing (a variant used to show
\* that the restart-failure property depends on rollback).
rollback_skip(f, cfg, backup_path, restart_ok) == [ok |-> TRUE, fs |-> f, ran |-> 0]

\* rollback: [ok, fs, ran]; ran counts the runs of the restart command.
rollback(f, cfg, backup_path, restart_ok) ==
    IF backup_path = <<>> THEN [ok |-> FALSE, fs |-> f, ran |-> 0]
    ELSE IF ~Exists(f, backup_path) THEN [ok |-> FALSE, fs |-> f, ran |-> 0]
    ELSE LET cleared == IF Exists(f, cfg.service_dir)
                        THEN RemoveDirAll(f, cfg.service_dir) ELSE f
             c == CreateDirAll(cleared, cfg.service_dir)
             r == CopyDirRecursive(c.fs, backup_path, cfg.service_dir)
         IN IF ~c.ok THEN [ok |-> FALSE, fs |-> c.fs, ran |-> 0]
            ELSE IF ~r.ok THEN [ok |-> FALSE, fs |-> r.fs, ran |-> 0]
            ELSE [ok |-> restart_ok, fs |-> r.fs, ran |-> 1]

\* ---- polling.rs

\* read_current_version: Option<String>
read_current_version(f, cfg) ==
    LET p == cfg.service_dir \o <<VERSION_FILE>> IN
    IF p \in DOMAIN f /\ f[p].kind = "file" THEN Trim(f[p].data) ELSE NULL

\* write_current_version: create_dir_all(service_dir), then fs::write.
write_current_version(f, cfg, version) ==
    LET c == CreateDirAll(f, cfg.service_dir) IN
    IF ~c.ok THEN c ELSE WriteAt(c.fs, cfg.service_dir \o <<VERSION_FILE>>, version)

\* perform_update: let current_version = read_current_version().unwrap_or("unknown")
unwrap_or(opt, default) == IF opt = NULL THEN default ELSE opt

\* ---- the agent process: `dm-client run` (PollingClient::run) or
\* `dm-client apply` (usb.rs), as main.rs starts it.

NoTxn ==
    [mode |-> "none", target |-> NULL, checksum |-> NULL, current_version |-> NULL,
     data |-> NULL, backup_path |-> <<>>, result |-> "none", failed |-> "none",
     rb |-> "none"]

NoRequest == [kind |-> "none", version |-> NULL, status |-> NULL, success |-> FALSE,
              delivered |-> FALSE]

\* A daemon that stops at the first failed transaction (a variant used to show
\* that the loop's progress depends on where an error leaves it).
After_exit(mode) == "exit"

\* Err(e) leaves perform_update / apply_from_file: the daemon goes on to report,
\* the apply command exits.
After(mode) == IF mode = "daemon" THEN "report" ELSE "exit"

Fail(stage, rbstate) ==
    /\ txn' = [txn EXCEPT !.result = "err", !.failed = stage, !.rb = rbstate]
    /\ apc' = After(txn.mode)

\* The version file rewritten after a rollback: write_current_version in
\* polling.rs, a bare fs::write in usb.rs.
RewriteVersion(f, cfg, mode, version) ==
    IF mode = "daemon" THEN write_current_version(f, cfg, version)
    ELSE WriteAt(f, cfg.service_dir \o <<VERSION_FILE>>, version)

\* A failed restart or health check without its compensation (a variant used
\* to show that the health-failure property depends on the compensation).
Compensate_none(f, cfg, mode, backup_path, current_version, restart_ok) ==
    [fs |-> f, ran |-> 0, state |-> "none"]

\* The arm of a failed restart or health check: rollback(&backup_path)?, then the
\* old version rewritten; nothing without a backup.  state: "none", "ok", "err".
Compensate(f, cfg, mode, backup_path, current_version, restart_ok) ==
    IF backup_path = <<>> THEN [fs |-> f, ran |-> 0, state |-> "none"]
    ELSE LET rb == rollback(f, cfg, backup_path, restart_ok)
             w == RewriteVersion(rb.fs, cfg, mode, current_version)
         IN IF ~rb.ok THEN [fs |-> rb.fs, ran |-> rb.ran, state |-> "err"]
            ELSE [fs |-> w.fs, ran |-> rb.ran, state |-> IF w.ok THEN "ok" ELSE "err"]

\* run: the top of the loop: read_current_version and api.checkin(.., "online").
AgentPoll ==
    /\ apc = "loop" /\ npoll < MaxPolls
    /\ npoll' = npoll + 1
    /\ sent' = [NoRequest EXCEPT !.kind = "checkin",
                                 !.version = read_current_version(fs, config),
                                 !.status = "online"]
    /\ apc' = "checkin"
    /\ UNCHANGED <<args, media, config, fs, txn, restarts, pre>>
    /\ UNCHANGED srvVars

\* run: the check-in's result.  An "update" answer enters perform_update, which
\* first reads the current version.
CheckinResult(resp) ==
    /\ apc = "checkin"
    /\ IF resp.code = 200 /\ resp.action = "update"
       THEN /\ txn' = [NoTxn EXCEPT !.mode = "daemon",
                          !.target = unwrap_or(resp.target_version, Unknown),
                          !.checksum = unwrap_or(resp.checksum, ""),
                          !.current_version =
                              unwrap_or(read_current_version(fs, config), Unknown),
                          !.result = "run"]
            /\ pre' = fs
            /\ restarts' = 0
            /\ apc' = "download"
       ELSE /\ apc' = "sleep"
            /\ UNCHANGED <<txn, pre, restarts>>
    /\ UNCHANGED <<args, media, config, fs, npoll, sent>>
    /\ UNCHANGED srvVars

\* perform_update step 1: api.download_artifact(url)?; data = NULL is an error.
Download(data) ==
    /\ apc = "download"
    /\ IF data = NULL THEN Fail("download", "none")
       ELSE /\ txn' = [txn EXCEPT !.data = data]
            /\ apc' = "verify"
    /\ UNCHANGED <<args, media, config, fs, npoll, sent, restarts, pre>>
    /\ UNCHANGED srvVars

\* main.rs Apply with --file: usb::apply_from_file.  manifest is the
\* manifest.json next to the file, version and checksum the CLI's options.
ApplyFromFile(data, version, checksum, manifest) ==
    /\ apc = "apply"
    /\ pre' = fs
    /\ restarts' = 0
    /\ LET target_version == unwrap_or(version, manifest.version)
           expected_checksum == unwrap_or(checksum, manifest.checksum)
           t == [NoTxn EXCEPT !.mode = "apply", !.target = target_version,
                    !.checksum = expected_checksum,
                    !.current_version =
                        unwrap_or(read_current_version(fs, config), Unknown),
                    !.data = data, !.result = "run"]
       IN IF data = NULL \/ target_version = NULL
          THEN /\ txn' = [t EXCEPT !.result = "err", !.failed = "args"]
               /\ apc' = "exit"
          ELSE /\ txn' = t
               /\ apc' = "verify"
    /\ UNCHANGED <<args, media, config, fs, npoll, sent>>
    /\ UNCHANGED srvVars

\* main.rs Apply with --dir: usb::apply_from_directory passes the manifest's
\* version and checksum on as apply_from_file's arguments.
ApplyFromDirectory(manifest, data) ==
    /\ manifest.version # NULL
    /\ ApplyFromFile(data, manifest.version, manifest.checksum, manifest)

\* main.rs Commands::Apply: --dir goes to apply_from_directory, which is given
\* the directory only; else --file goes to apply_from_file with --version and
\* --checksum; with neither the command bails.
ApplyDir ==
    /\ args.dir
    /\ ApplyFromDirectory(media.manifest, media.artifact)

ApplyFile ==
    /\ ~args.dir /\ args.file
    /\ ApplyFromFile(media.artifact, args.version, args.checksum, media.manifest)

ApplyNone ==
    /\ apc = "apply" /\ ~args.dir /\ ~args.file
    /\ txn' = [NoTxn EXCEPT !.mode = "apply", !.result = "err", !.failed = "args"]
    /\ apc' = "exit"
    /\ UNCHANGED <<args, media, config, fs, npoll, sent, restarts, pre>>
    /\ UNCHANGED srvVars

\* Step 2: verify_checksum, skipped by apply_from_file without a checksum.
Verify ==
    /\ apc = "verify"
    /\ IF txn.checksum # NULL /\ ~verify_checksum(txn.data, txn.checksum)
       THEN Fail("verify", "none")
       ELSE /\ apc' = "backup"
            /\ UNCHANGED txn
    /\ UNCHANGED <<args, media, config, fs, npoll, sent, restarts, pre>>
    /\ UNCHANGED srvVars

\* Step 3: backup_current(&current_version)?
Backup(io) ==
    /\ apc = "backup"
    /\ LET r == backup_current(fs, config, txn.current_version, ToString(npoll), io) IN
       /\ fs' = r.fs
       /\ IF r.ok
          THEN /\ txn' = [txn EXCEPT !.backup_path = r.path]
               /\ apc' = "install"
          ELSE Fail("backup", "none")
    /\ UNCHANGED <<args, media, config, npoll, sent, restarts, pre>>
    /\ UNCHANGED srvVars

\* Step 4: extract_and_install; on Err, rollback(&backup_path)? with a backup.
Install(io, restart_ok) ==
    /\ apc = "install"
    /\ LET r == extract_and_install(fs, config, txn.data, io)
           rb == rollback(r.fs, config, txn.backup_path, restart_ok)
       IN IF r.ok
          THEN /\ fs' = r.fs
               /\ apc' = "version"
               /\ UNCHANGED <<txn, restarts>>
          ELSE IF txn.backup_path # <<>>
               THEN /\ fs' = rb.fs
                    /\ restarts' = restarts + rb.ran
                    /\ Fail("install", IF rb.ok THEN "ok" ELSE "err")
               ELSE /\ fs' = r.fs
                    /\ UNCHANGED restarts
                    /\ Fail("install", "none")
    /\ UNCHANGED <<args, media, config, npoll, sent, pre>>
    /\ UNCHANGED srvVars

\* Step 5: the target version written to .dm-version; an error leaves at once.
WriteVersion(io) ==
    /\ apc = "version"
    /\ LET w == IF io THEN Err(fs) ELSE write_current_version(fs, config, txn.target) IN
       /\ fs' = w.fs
       /\ IF w.ok
          THEN /\ apc' = "restart"
               /\ UNCHANGED txn
          ELSE Fail("version", "none")
    /\ UNCHANGED <<args, media, config, npoll, sent, restarts, pre>>
    /\ UNCHANGED srvVars

\* Step 6: restart_service; on Err the compensation, then Err.
Restart(ok, restart_ok) ==
    /\ apc = "restart"
    /\ LET c == Compensate(fs, config, txn.mode, txn.backup_path,
                           txn.current_version, restart_ok)
       IN IF ok
          THEN /\ restarts' = restarts + 1
               /\ apc' = "health"
               /\ UNCHANGED <<fs, txn>>
          ELSE /\ restarts' = restarts + 1 + c.ran
               /\ fs' = c.fs
               /\ Fail("restart", c.state)
    /\ UNCHANGED <<args, media, config, npoll, sent, pre>>
    /\ UNCHANGED srvVars

\* health_check: Ok(true) without a command, else the command's exit status.
health_check(cfg, healthy) ==
    IF cfg.health_check_command = NULL THEN TRUE ELSE healthy

\* Step 7: health_check; on Ok(false) or Err the compensation, then Err.
Health(healthy, restart_ok) ==
    /\ apc = "health"
    /\ LET c == Compensate(fs, config, txn.mode, txn.backup_path,
                           txn.current_version, restart_ok)
       IN IF health_check(config, healthy)
          THEN /\ txn' = [txn EXCEPT !.result = "ok"]
               /\ apc' = After(txn.mode)
               /\ UNCHANGED <<fs, restarts>>
          ELSE /\ restarts' = restarts + c.ran
               /\ fs' = c.fs
               /\ Fail("health", c.state)
    /\ UNCHANGED <<args, media, config, npoll, sent, pre>>
    /\ UNCHANGED srvVars

\* run: api.report_result(target, success, ..); an error is logged and dropped.
Report(delivered) ==
    /\ apc = "report"
    /\ sent' = [NoRequest EXCEPT !.kind = "report", !.version = txn.target,
                                 !.success = (txn.result = "ok"),
                                 !.delivered = delivered]
    /\ apc' = "sleep"
    /\ UNCHANGED <<args, media, config, fs, txn, npoll, restarts, pre>>
    /\ UNCHANGED srvVars

\* run: sleep(poll_interval_secs), then the next iteration.
Sleep ==
    /\ apc = "sleep"
    /\ apc' = "loop"
    /\ UNCHANGED <<args, media, config, fs, txn, npoll, sent, restarts, pre>>
    /\ UNCHANGED srvVars

\* ---- the hosts and inputs of the agent model

\* No service directory; one installed by hand, without .dm-version; one the
\* agent installed before.
Hosts ==
    { <<>>,
      (<<"service">> :> Dir) @@ (<<"service", "app">> :> File("old")),
      (<<"service">> :> Dir) @@ (<<"service", "app">> :> File("old"))
          @@ (<<"service", "lib">> :> Dir) @@ (<<"service", "lib", "so">> :> File("old"))
          @@ (<<"service", VERSION_FILE>> :> File("1.0.0")) }

Configs ==
    { [service_dir |-> l.service_dir, backup_dir |-> l.backup_dir,
       health_check_command |-> hc] : l \in Layouts, hc \in {NULL, "check"} }

\* What api.checkin can return: a transport error, a refusal, "none", or an
\* update directive naming a version and a checksum.
CheckinResults ==
    {RespStatus(0), Unauthorized, RespNone}
    \cup { [code |-> 200, action |-> "update", target_version |-> v,
            artifact_url |-> "/api/artifacts/" \o v, checksum |-> Sha256(b)]
           : v \in Versions, b \in AgentBlobs }

NoManifest == [version |-> NULL, checksum |-> NULL]
Manifests == {NoManifest, [version |-> "1.1.0", checksum |-> Sha256("A")]}

\* main.rs Commands::Apply: --file, --dir (given or not), --version, --checksum.
NoArgs == [file |-> FALSE, dir |-> FALSE, version |-> NULL, checksum |-> NULL]
ApplyArgs ==
    [file : BOOLEAN, dir : BOOLEAN, version : {NULL, "1.0.0"},
     checksum : {NULL, Sha256("A")}]

\* The medium: the artifact file (NULL: no such file) and manifest.json beside it.
NoMedia == [artifact |-> NULL, manifest |-> NoManifest]
Media == [artifact : {"A", "E", NULL}, manifest : Manifests]

AgentOff ==
    /\ args = NoArgs
    /\ media = NoMedia
    /\ config = [service_dir |-> <<"service">>, backup_dir |-> <<"backups">>,
                 health_check_command |-> NULL]
    /\ fs = <<>>
    /\ apc = "off"
    /\ txn = NoTxn
    /\ npoll = 0
    /\ sent = NoRequest
    /\ restarts = 0
    /\ pre = <<>>

\* main.rs: the daemon reads Config::from_env, the apply command
\* Config::from_env_optional; both give service_dir, backup_dir and the commands.
InitAgent ==
    /\ ServerInit
    /\ config \in Configs
    /\ fs \in Hosts
    /\ apc \in {"loop", "apply"}
    /\ IF apc = "apply" THEN args \in ApplyArgs /\ media \in Media
                        ELSE args = NoArgs /\ media = NoMedia
    /\ txn = NoTxn
    /\ npoll = 0
    /\ sent = NoRequest
    /\ restarts = 0
    /\ pre = fs

NextAgent ==
    \/ AgentPoll
    \/ \E resp \in CheckinResults : CheckinResult(resp)
    \/ \E data \in AgentBlobs \cup {NULL} : Download(data)
    \/ ApplyFile
    \/ ApplyDir
    \/ ApplyNone
    \/ Verify
    \/ \E io \in BOOLEAN : Backup(io)
    \/ \E io \in {"none", "create", "copy"}, restart_ok \in BOOLEAN :
          Install(io, restart_ok)
    \/ \E io \in BOOLEAN : WriteVersion(io)
    \/ \E ok \in BOOLEAN, restart_ok \in BOOLEAN : Restart(ok, restart_ok)
    \/ \E healthy \in BOOLEAN, restart_ok \in BOOLEAN : Health(healthy, restart_ok)
    \/ \E delivered \in BOOLEAN : Report(delivered)
    \/ Sleep

InitServer == ServerInit /\ AgentOff

\* The version catalog: uploads and downloads against an empty catalog.
InitCatalog ==
    /\ clients = <<>>
    /\ client_configs = <<>>
    /\ versions = <<>>
    /\ artifacts = <<>>
    /\ update_logs = <<>>
    /\ handlers = [h \in Slots |-> IdleHandler]
    /\ nreq = [checkin |-> 0, report |-> 0, upload |-> 0]
    /\ nadmin = 0
    /\ adminResp = [op |-> "none", client |-> 0, version |-> NULL, code |-> 0]
    /\ reported = <<>>
    /\ AgentOff

NextCatalog ==
    \/ \E h \in Slots, v \in Versions \cup {BadSemver}, blob \in UploadBlobs,
          fname \in FileNames : RecvUpload(h, v, blob, fname)
    \/ \E h \in Slots : UploadCheck(h)
    \/ \E h \in Slots : UploadWrite(h)
    \/ \E h \in Slots : UploadInsert(h)
    \/ \E v \in Versions : DownloadArtifact(v)

SpecCatalog == InitCatalog /\ [][NextCatalog]_vars

\* The update-log table under its two database functions, called with any
\* arguments the signatures admit.
LogMessages == {NULL, "boom"}

CreateUpdateLog(client_id, from_version, to_version) ==
    /\ nadmin < MaxLogOps
    /\ Len(update_logs) < MaxLogs
    /\ client_id \in DOMAIN clients
    /\ update_logs' = create_update_log(update_logs, client_id, from_version, to_version)
    /\ nadmin' = nadmin + 1
    /\ adminResp' = [op |-> "create_log", client |-> client_id, version |-> to_version, code |-> 0]
    /\ UNCHANGED <<clients, versions, artifacts, handlers, nreq, reported>>
    /\ UNCHANGED client_configs
    /\ UNCHANGED agtVars

UpdateLogStatus(log_id, status, error_message) ==
    /\ nadmin < MaxLogOps
    /\ update_logs' = update_log_status(update_logs, log_id, status, error_message, nadmin + 1)
    /\ nadmin' = nadmin + 1
    /\ adminResp' = [op |-> "update_log", client |-> log_id, version |-> status, code |-> 0]
    /\ UNCHANGED <<clients, versions, artifacts, handlers, nreq, reported>>
    /\ UNCHANGED client_configs
    /\ UNCHANGED agtVars

InitLogs == ServerInit /\ AgentOff

NextLogs ==
    \/ RegisterClient
    \/ \E c \in 1..MaxClients, from \in CurVals, to \in Versions : CreateUpdateLog(c, from, to)
    \/ \E i \in 1..MaxLogs, st \in LogStatuses, msg \in LogMessages : UpdateLogStatus(i, st, msg)

SpecLogs == InitLogs /\ [][NextLogs]_vars

\* The polling daemon alone (`dm-client run`).  Stages are the positions of
\* run and perform_update; the run is cut after MaxPolls iterations, where the
\* model stops at the top of the loop.
Stages == {"loop", "checkin", "download", "verify", "backup", "install", "version",
           "restart", "health", "report", "sleep"}

Stopped == apc = "loop" /\ npoll >= MaxPolls

\* The process moves on: every step of the daemon leaves its position, and a
\* step is possible at every position but the cut.  The fairness of the running
\* process (a request returns, a command ends, the sleep ends) is weak fairness
\* of this move.
Advance == ~Stopped /\ apc' \in Stages /\ apc' # apc

InitLoop == InitAgent /\ apc = "loop"

NextLoop ==
    \/ AgentPoll
    \/ \E resp \in CheckinResults : CheckinResult(resp)
    \/ \E data \in AgentBlobs \cup {NULL} : Download(data)
    \/ Verify
    \/ \E io \in BOOLEAN : Backup(io)
    \/ \E io \in {"none", "create", "copy"}, restart_ok \in BOOLEAN :
          Install(io, restart_ok)
    \/ \E io \in BOOLEAN : WriteVersion(io)
    \/ \E ok \in BOOLEAN, restart_ok \in BOOLEAN : Restart(ok, restart_ok)
    \/ \E healthy \in BOOLEAN, restart_ok \in BOOLEAN : Health(healthy, restart_ok)
    \/ \E delivered \in BOOLEAN : Report(delivered)
    \/ Sleep

SpecLoop == InitLoop /\ [][NextLoop]_vars /\ WF_apc(Advance)

\* The stored configs tried: none set, each field alone, all set.
ClientConfigs ==
    {EmptyConfig, [f \in ConfigFields |-> "set"]}
    \cup {[f \in ConfigFields |-> IF f = g THEN "set" ELSE NULL] : g \in ConfigFields}

\* Check-ins of a client whose config the operator may have put.
InitConfig == InitServer

NextConfig ==
    \/ RegisterClient
    \/ \E id \in 1..MaxClients, cfg \in ClientConfigs : UpdateClientConfig(id, cfg)
    \/ \E h \in Slots, key \in Keys \ {NULL}, cur \in CurVals :
          RecvCheckin(h, key, cur, "online")
    \/ \E h \in Slots : Auth(h)
    \/ \E h \in Slots : CheckinUpdate(h)
    \/ \E h \in Slots : CheckinDecide(h)

SpecConfig == InitConfig /\ [][NextConfig]_vars

SpecServer == InitServer /\ [][NextServer]_vars

SpecAgent == InitAgent /\ [][NextAgent]_vars

\* ================================================================ properties

\* ---------------------------------------------------------------- server

\* A step of handler h.
Moves(h) == handlers'[h] # handlers[h]

\* C1: a deploy of an existing version V to client c sets c's target_version to
\* V, and a check-in of c that read target_version = V from the client row while
\* its own current_version is absent or differs from V is answered with action
\* "update", target_version V and the checksum of V's row in versions.
C1_Step ==
    /\ (adminResp' # adminResp /\ adminResp'.op = "deploy" /\ adminResp'.code = 200)
          => /\ get_version(versions, adminResp'.version) # NoVersion
             /\ clients'[adminResp'.client].target_version = adminResp'.version
    /\ \A h \in Slots :
          (handlers[h].kind = "checkin" /\ handlers[h].pc = "auth" /\ Moves(h)
             /\ handlers'[h].pc # "done")
          => handlers'[h].target = clients[handlers'[h].client].target_version
    /\ \A h \in Slots :
          LET r == handlers[h] IN
          (r.kind = "checkin" /\ r.pc \in {"decide", "log"} /\ r.target # NULL
             /\ r.cur # r.target /\ Moves(h))
          => \/ r.pc = "decide" /\ handlers'[h].pc = "log"
             \/ /\ handlers'[h].pc = "done"
                /\ handlers'[h].resp.code = 200
                /\ handlers'[h].resp.action = "update"
                /\ handlers'[h].resp.target_version = r.target
                /\ \E i \in DOMAIN versions :
                      /\ versions[i].version = r.target
                      /\ handlers'[h].resp.checksum = versions[i].checksum
C1_DeployThenUpdate == [][C1_Step]_vars

\* C1's case: after a deploy of 1.1.0 a check-in without current_version was
\* answered with the directive for 1.1.0.
C1_Witness ==
    /\ adminResp.op = "deploy" /\ adminResp.code = 200 /\ adminResp.version = "1.1.0"
    /\ \E h \in Slots :
          /\ handlers[h].kind = "checkin" /\ handlers[h].pc = "done"
          /\ handlers[h].cur = NULL
          /\ handlers[h].resp.action = "update"
          /\ handlers[h].resp.target_version = "1.1.0"
          /\ handlers[h].resp.checksum = Sha256("B")

\* C2: the step in which a success report for V is applied changes the
\* reporting client's row in one transition to current_version = V,
\* target_version = NULL and status = "online", every other column and every
\* other row as before; no state lies between the row before and the row after.
C2_Step ==
    \A h \in Slots :
       LET r == handlers[h] IN
       (r.kind = "report" /\ r.pc = "write" /\ r.success /\ Moves(h))
       => /\ handlers'[h].pc = "done"
          /\ handlers'[h].resp.code = 200
          /\ clients' = [clients EXCEPT ![r.client] =
                            [api_key |-> clients[r.client].api_key,
                             current_version |-> r.version,
                             target_version |-> NULL,
                             status |-> "online",
                             last_seen |-> clients[r.client].last_seen]]
C2_SuccessReportAtomic == [][C2_Step]_vars

\* C2's case: a success report for 1.1.0 was applied to a client that had
\* 1.1.0 as its target.
C2_Witness ==
    /\ \E h \in Slots : handlers[h].kind = "report" /\ handlers[h].pc = "done"
                        /\ handlers[h].resp.code = 200
    /\ Len(clients) = 1
    /\ reported[1] = "1.1.0"
    /\ clients[1].current_version = "1.1.0"
    /\ clients[1].target_version = NULL
    /\ clients[1].status = "online"
    /\ Len(update_logs) > 0

\* C3: a check-in of a client that authenticated after the client's success
\* report for V (no deploy since) and reports current_version = V writes a row
\* with current_version = V and target_version = NULL, unless a deploy came in
\* between, and is answered with action "none" without opening an update log.
C3_Step ==
    \A h \in Slots :
       LET r == handlers[h] IN
       (r.kind = "checkin" /\ r.after # NULL /\ r.cur = r.after /\ Moves(h))
       => /\ (r.pc = "write" /\ reported[r.client] = r.after)
                => /\ clients'[r.client].current_version = r.after
                   /\ clients'[r.client].target_version = NULL
          /\ r.pc = "decide"
                => /\ handlers'[h].pc = "done"
                   /\ handlers'[h].resp = RespNone
                   /\ update_logs' = update_logs
C3_NextCheckinNone == [][C3_Step]_vars

\* C3's case: a directive for 1.1.0 was dispatched, success for 1.1.0 was
\* reported, and a check-in that came after the report with current_version
\* 1.1.0 was answered.
C3_Witness ==
    /\ \E i \in DOMAIN update_logs : update_logs[i].to_version = "1.1.0"
    /\ reported[1] = "1.1.0"
    /\ \E h \in Slots :
          /\ handlers[h].kind = "checkin" /\ handlers[h].pc = "done"
          /\ handlers[h].after = "1.1.0" /\ handlers[h].cur = "1.1.0"
          /\ handlers[h].resp.action = "none"
    /\ clients[1].current_version = "1.1.0"
    /\ clients[1].target_version = NULL

\* C4: the step in which a failure report is applied sets the reporting
\* client's status to "error" and leaves its target_version, its
\* current_version, every other column and every other row as they were.
C4_Step ==
    \A h \in Slots :
       LET r == handlers[h] IN
       (r.kind = "report" /\ r.pc = "write" /\ ~r.success /\ Moves(h))
       => /\ handlers'[h].pc = "done"
          /\ clients'[r.client].status = "error"
          /\ clients'[r.client].target_version = clients[r.client].target_version
          /\ clients'[r.client].current_version = clients[r.client].current_version
          /\ clients'[r.client].api_key = clients[r.client].api_key
          /\ clients'[r.client].last_seen = clients[r.client].last_seen
          /\ \A i \in DOMAIN clients : i # r.client => clients'[i] = clients[i]
          /\ DOMAIN clients' = DOMAIN clients
C4_FailureReportKeepsTarget == [][C4_Step]_vars

\* C4's case: a failure report was applied to a client with a target and an
\* observed version, and both are still there.
C4_Witness ==
    /\ \E h \in Slots : handlers[h].kind = "report" /\ handlers[h].pc = "done"
                        /\ handlers[h].resp.code = 200
    /\ Len(clients) = 1
    /\ clients[1].status = "error"
    /\ clients[1].target_version = "1.1.0"
    /\ clients[1].current_version = "1.0.0"

\* C5: a check-in without an API key, or with a key no client row holds, is
\* answered 401 in its first step, and that step changes no client row and
\* adds no update log; the handler takes no further step.
C5_Step ==
    \A h \in Slots :
       LET r == handlers[h] IN
       (r.kind = "checkin" /\ Moves(h) /\ r.pc # "done"
          /\ (r.key = NULL \/ \A i \in DOMAIN clients : clients[i].api_key # r.key))
       => /\ r.pc = "auth"
          /\ handlers'[h].pc = "done"
          /\ handlers'[h].resp.code = 401
          /\ clients' = clients
          /\ update_logs' = update_logs
C5_CheckinAuthGate == [][C5_Step]_vars

\* C5's case: with a client registered and a target deployed, a check-in was
\* answered 401.
C5_Witness ==
    /\ Len(clients) = 1
    /\ clients[1].target_version # NULL
    /\ \E h \in Slots : handlers[h].kind = "checkin" /\ handlers[h].pc = "done"
                        /\ handlers[h].resp.code = 401

\* ----------------------------------------------------------------- agent

\* What the service directory holds, .dm-version included.
ServiceTree(f) == Tree(f, config.service_dir)

\* The transaction has ended: perform_update or apply_from_file has returned.
Ended == txn.result \in {"ok", "err"}

\* C6: when the downloaded bytes' SHA-256 is not the directive's checksum the
\* transaction ends at the verification: the file system is as it was when the
\* transaction began (service_dir and .dm-version unchanged, no backup), the
\* restart command has not run, and the daemon's next step is the report of
\* success = false for the target version.
C6_Step ==
    /\ (apc = "verify" /\ txn.checksum # NULL /\ Sha256(txn.data) # txn.checksum
          /\ apc' # apc)
       => /\ txn'.result = "err" /\ txn'.failed = "verify"
          /\ fs' = fs /\ fs = pre
          /\ restarts' = 0
          /\ txn.mode = "daemon" => apc' = "report"
    /\ (apc = "report" /\ txn.failed = "verify" /\ apc' # apc)
       => /\ sent'.kind = "report"
          /\ sent'.version = txn.target
          /\ sent'.success = FALSE
          /\ fs' = pre
          /\ restarts' = 0
C6_ChecksumMismatchAborts == [][C6_Step]_vars

\* C6's case: on a host with an installed version the daemon downloaded bytes
\* that do not match and has sent its report.
C6_Witness ==
    /\ txn.mode = "daemon" /\ txn.failed = "verify"
    /\ Sha256(txn.data) # txn.checksum
    /\ Exists(fs, config.service_dir \o <<VERSION_FILE>>)
    /\ apc = "sleep" /\ sent.kind = "report" /\ ~sent.success

\* The transaction is one of the polling daemon's (perform_update).
Daemon == txn.mode = "daemon"

\* C7: after a transaction of the daemon in which a stage after the backup
\* failed and rollback ran, service_dir holds what it held when the transaction
\* began, .dm-version and its presence included.
C7_RollbackRestores ==
    (Daemon /\ Ended /\ txn.rb # "none") => ServiceTree(fs) = ServiceTree(pre)

\* C8: after a transaction of the daemon that ended in success .dm-version
\* holds the target; after one that ended rolled back it holds what it held
\* before, or is absent if it was absent.
C8_VersionFile ==
    /\ (Daemon /\ txn.result = "ok")
          => read_current_version(fs, config) = txn.target
    /\ (Daemon /\ txn.result = "err" /\ txn.rb = "ok")
          => read_current_version(fs, config) = read_current_version(pre, config)

\* The backups the transaction has created so far: the entries of backup_dir
\* that were not there when it began.
NewBackups ==
    {p \in DOMAIN fs \ DOMAIN pre :
        Len(p) = Len(config.backup_dir) + 1 /\ IsPrefix(config.backup_dir, p)}

\* C9: every backup a transaction of the daemon creates lies outside
\* service_dir, and after the install stage the backup still holds what
\* service_dir held before.
C9_BackupOutside ==
    Daemon =>
       /\ \A p \in NewBackups : ~IsPrefix(config.service_dir, p)
       /\ (apc \in {"version", "restart", "health"} /\ txn.backup_path # <<>>)
             => Tree(fs, txn.backup_path) = ServiceTree(pre)

\* C10: an archive with an entry that has a ".." component or an absolute path
\* is rejected by the install stage: the transaction does not get past that
\* stage and does not succeed, and when it has failed there service_dir holds
\* what it held before.
C10_UnsafeArchiveRejected ==
    (Daemon /\ txn.data # NULL /\ HasUnsafeEntry(txn.data))
       => /\ apc \notin {"version", "restart", "health"}
          /\ txn.result # "ok"
          /\ txn.failed = "install" => ServiceTree(fs) = ServiceTree(pre)

\* What an archive installs: its entries below the extracted root.
ContentOf(data) ==
    LET u == Unpack(<<>>, <<"x">>, data)
    IN Tree(u.fs, find_extracted_root(u.fs, <<"x">>))

\* What service_dir holds once version v with archive data is installed.
Installed(data, v) == ContentOf(data) @@ (<<VERSION_FILE>> :> File(v))

\* The transaction runs a directive whose version and content the host already
\* held when it began: the directive was executed before.
SecondRun ==
    /\ txn.data # NULL /\ IsArchive(txn.data)
    /\ ServiceTree(pre) = Installed(txn.data, txn.target)

C11_Inv ==
    (Daemon /\ Ended /\ SecondRun /\ (txn.result = "ok" \/ txn.rb # "none"))
    => /\ ServiceTree(fs) = Installed(txn.data, txn.target)
       /\ read_current_version(fs, config) = txn.target
       /\ ~needs_update(txn.target, read_current_version(fs, config))
       /\ ~needs_update(NULL, read_current_version(fs, config))
C11_Step ==
    (apc = "loop" /\ apc' = "checkin")
    => /\ sent'.kind = "checkin"
       /\ sent'.version = read_current_version(fs, config)

\* C11: when the daemon runs a directive for V a second time, on a host that
\* already holds V's content and .dm-version = V, and the run ends in success
\* or in a rollback, service_dir holds exactly V's content and .dm-version = V;
\* the next check-in carries current_version = V, for which the server's
\* needs_update is false whether the target is still V or already cleared.
C11_IdempotentRedelivery == [](C11_Inv) /\ [][C11_Step]_vars

\* C11's case: the second run of the directive ended in success and the
\* following check-in was sent.
C11_Witness ==
    /\ Daemon /\ txn.result = "ok" /\ SecondRun
    /\ npoll = 3 /\ apc = "checkin"
    /\ sent.version = txn.target
    /\ ServiceTree(fs) = Installed(txn.data, txn.target)

\* --------------------------------------------------------------- catalog

\* C12: an upload whose existence check finds a row with its version string is
\* answered 409 in that step, and the step changes neither the artifact files
\* nor the versions table.
C12_Step ==
    \A h \in Slots :
       LET r == handlers[h] IN
       (r.kind = "upload" /\ r.pc = "check" /\ Moves(h)
          /\ \E i \in DOMAIN versions : versions[i].version = r.version)
       => /\ handlers'[h].pc = "done"
          /\ handlers'[h].resp.code = 409
          /\ artifacts' = artifacts
          /\ versions' = versions
C12_DuplicateUploadRefused == [][C12_Step]_vars

\* C12's case: version 1.0.0 is stored with blob A and checksum of A, and a
\* second upload was answered 409.
C12_Witness ==
    /\ \E h \in Slots : handlers[h].kind = "upload" /\ handlers[h].pc = "done"
                        /\ handlers[h].resp.code = 409
    /\ \E i \in DOMAIN versions : /\ versions[i].version = "1.0.0"
                                  /\ versions[i].checksum = Sha256("A")
    /\ artifacts[ArtifactFilename("1.0.0", NULL)] = "A"

\* C13: in every state each version row's checksum is the SHA-256 of the bytes
\* a download of that version serves, and no two rows hold the same version
\* string.
C13_ChecksumRoundTrip ==
    /\ \A i \in DOMAIN versions :
          LET d == download_artifact(versions, artifacts, versions[i].version) IN
          d.code = 200 /\ Sha256(d.body) = versions[i].checksum
    /\ \A i, j \in DOMAIN versions :
          versions[i].version = versions[j].version => i = j

\* ---------------------------------------------------------------- deploy

C14_Step ==
    (nadmin' # nadmin /\ adminResp'.op = "deploy"
       /\ \A i \in DOMAIN versions : versions[i].version # adminResp'.version)
    => /\ adminResp'.code = 404
       /\ clients' = clients
C14_Inv ==
    \A c \in DOMAIN clients :
       clients[c].target_version # NULL
       => \E i \in DOMAIN versions : versions[i].version = clients[c].target_version

\* C14: a deploy naming a version string without a row in versions is answered
\* 404 and changes no client row; in every state a client's target_version,
\* when set, is the version string of a row in versions.
C14_DeployNeedsVersion == [](C14_Inv) /\ [][C14_Step]_vars

\* C14's case: a client with target 1.1.0 was then asked to deploy the missing
\* 2.0.0; the answer was 404 and the target is still 1.1.0.
C14_Witness ==
    /\ adminResp.op = "deploy" /\ adminResp.version = MissingVersion
    /\ adminResp.code = 404 /\ adminResp.client = 1
    /\ Len(clients) = 1
    /\ clients[1].target_version = "1.1.0"

\* ------------------------------------------------------------ update logs

\* The statuses after which a log is finished.
Terminal == {"completed", "failed", "rolled_back"}

\* The most recent log of client c to version v that is not finished, or 0.
OpenLog(tbl, c, v) ==
    LET S == {i \in DOMAIN tbl : /\ tbl[i].client_id = c /\ tbl[i].to_version = v
                                 /\ tbl[i].status \notin Terminal}
    IN IF S = {} THEN 0 ELSE CHOOSE i \in S : \A j \in S : j <= i

C15_Step ==
    \A h \in Slots :
       LET r == handlers[h]
           i == OpenLog(update_logs, r.client, r.version)
       IN (r.kind = "report" /\ r.pc = "write" /\ Moves(h) /\ i # 0)
          => /\ DOMAIN update_logs' = DOMAIN update_logs
             /\ update_logs'[i].status = IF r.success THEN "completed" ELSE "failed"
             /\ clients'[r.client].status = IF r.success THEN "online" ELSE "error"

\* C15: the step that applies a result report for V from client c also moves
\* c's most recent unfinished update log to V to completed (success) or failed
\* (failure), together with the change of the client row.
C15_ReportClosesLog == [][C15_Step]_vars

\* C16: every update log in a finishing status has completed_at set, and every
\* update log in another status has it unset.
C16_TerminalHasCompletedAt ==
    \A i \in DOMAIN update_logs :
        (update_logs[i].status \in Terminal) <=> (update_logs[i].completed_at # NULL)

C16_Witness ==
    \E i \in DOMAIN update_logs :
        /\ adminResp.op = "update_log" /\ adminResp.client = i
        /\ update_logs[i].status \in Terminal
        /\ update_logs[i].completed_at # NULL

C17_Step ==
    \A i \in DOMAIN update_logs :
        update_logs[i].status \in Terminal
        => /\ i \in DOMAIN update_logs'
           /\ update_logs'[i].status = update_logs[i].status
           /\ update_logs'[i].error_message = update_logs[i].error_message
           /\ update_logs'[i].completed_at = update_logs[i].completed_at

Payload(f) ==
    LET t == ServiceTree(f) IN [q \in DOMAIN t \ {<<VERSION_FILE>>} |-> t[q]]

\* The step of the daemon's transaction at stage `at` that ends it as failed
\* at that stage, with a backup taken.
FailsAt(at) ==
    /\ Daemon /\ apc = at /\ txn.backup_path # <<>>
    /\ txn'.result = "err" /\ txn'.failed = at

\* What the compensation leaves: service_dir restored from the backup, which
\* holds what service_dir held when the transaction began; .dm-version holding
\* the prior version where there was one; the report next.
Compensated ==
    /\ Tree(fs, txn.backup_path) = ServiceTree(pre)
    /\ Payload(fs') = Payload(pre)
    /\ read_current_version(pre, config) # NULL
          => /\ read_current_version(fs', config) = read_current_version(pre, config)
             /\ read_current_version(fs', config) = txn.current_version
             /\ ServiceTree(fs') = ServiceTree(pre)
    /\ apc' = "report"

\* The report step after a transaction that failed at stage `at`.
ReportsFailure(at) ==
    (Daemon /\ apc = "report" /\ txn.failed = at /\ apc' # apc)
    => /\ sent'.kind = "report"
       /\ sent'.version = txn.target
       /\ sent'.success = FALSE

C18_Step ==
    /\ FailsAt("restart")
          => /\ read_current_version(fs, config) = txn.target
             /\ Compensated
             /\ restarts' = restarts + 2
    /\ ReportsFailure("restart")

\* C18: when the restart command fails after the install and the write of
\* .dm-version, the daemon (holding a backup) restores service_dir from the
\* backup, .dm-version holds the prior version again, the restart command has
\* run a second time, and the report that follows carries success = false for
\* the target version.
C18_RestartFailureRollsBack == [][C18_Step]_vars

\* C18's case: on a host with an installed version the restart failed, the
\* compensation ran, and the failure report was sent.
C18_Witness ==
    /\ Daemon /\ txn.failed = "restart" /\ txn.backup_path # <<>>
    /\ read_current_version(pre, config) # NULL
    /\ read_current_version(fs, config) = txn.current_version
    /\ txn.target # txn.current_version
    /\ ServiceTree(fs) = ServiceTree(pre)
    /\ restarts = 2
    /\ apc = "sleep" /\ sent.kind = "report" /\ ~sent.success

C19_Step ==
    /\ FailsAt("health")
          => /\ config.health_check_command # NULL
             /\ read_current_version(fs, config) = txn.target
             /\ Compensated
             /\ restarts' = restarts + 1
    /\ ReportsFailure("health")

\* C19: when the restart succeeded and the configured health check fails
\* (non-zero exit, or the command cannot be run), the daemon (holding a backup)
\* restores service_dir from the backup, .dm-version holds the prior version
\* again, the restart command has run once more, and the report that follows
\* carries success = false for the target version.
C19_HealthFailureRollsBack == [][C19_Step]_vars

\* C19's case: on a host with an installed version and a health check
\* configured, the restart succeeded, the health check failed, the compensation
\* ran, and the failure report was sent.
C19_Witness ==
    /\ Daemon /\ txn.failed = "health" /\ txn.backup_path # <<>>
    /\ config.health_check_command # NULL
    /\ read_current_version(pre, config) # NULL
    /\ read_current_version(fs, config) = txn.current_version
    /\ txn.target # txn.current_version
    /\ ServiceTree(fs) = ServiceTree(pre)
    /\ restarts = 2
    /\ apc = "sleep" /\ sent.kind = "report" /\ ~sent.success

C20_Step ==
    \A h \in Slots :
       LET r == handlers[h]
           i == OpenLog(update_logs, r.client, r.version)
       IN (r.kind = "report" /\ r.pc = "write" /\ ~r.success /\ Moves(h) /\ i # 0)
          => update_logs'[i].status \in {"rolled_back", "failed"}

\* C20: when a failure report for a dispatched update has been applied, the
\* update log of that dispatch is finished as rolled_back (the agent's rollback
\* succeeded) or as failed (it did not), and no longer pending.
C20_FailureLogOutcome == [][C20_Step]_vars

C21_Step ==
    /\ apc' # apc /\ apc' \in Stages
    /\ (apc = "checkin" /\ apc' # apc /\ txn'.result # "run") => apc' = "sleep"
    /\ (apc \notin {"loop", "checkin", "report", "sleep"} /\ txn'.result = "err")
          => apc' = "report"
    /\ (apc = "report" /\ apc' # apc) => apc' = "sleep"
    /\ (apc = "sleep" /\ apc' # apc) => apc' = "loop"

\* C21: the polling loop never stops because of a failure: a check-in that
\* brings no directive (transport error, 401, "none") goes to the sleep, a
\* failed transaction goes to its report, a report delivered or not goes to the
\* sleep, the sleep goes to the top of the loop; and from every point of the
\* k-th iteration the (k+1)-th check-in is sent, for every k below the bound on
\* the iterations.
C21_LoopNeverStops ==
    /\ [][C21_Step]_vars
    /\ \A k \in 0..(MaxPolls - 1) : (npoll = k) ~> (npoll = k + 1 /\ apc = "checkin")

\* C21's case: a transaction failed at the restart, its report was sent, and
\* the daemon has sent the next check-in.
C21_Witness ==
    /\ Daemon /\ txn.result = "err" /\ txn.failed = "restart"
    /\ apc = "checkin" /\ npoll = 2 /\ sent.kind = "checkin"

C22_Step ==
    (apc = "apply" /\ apc' = "verify" /\ (args.dir \/ args.file))
    => /\ txn'.target = unwrap_or(args.version, media.manifest.version)
       /\ txn'.checksum = unwrap_or(args.checksum, media.manifest.checksum)

\* C22: in offline apply, with --file or with --dir, the version and the
\* checksum the transaction uses are the command line's --version and
\* --checksum when they are given, and the manifest's otherwise.
C22_CliWins == [][C22_Step]_vars

\* The step is a deploy (deploy_to_client answers in the same step).
DeployStep == nadmin' # nadmin /\ adminResp'.op = "deploy"

C23_Step ==
    \A c \in DOMAIN clients :
       (clients[c].target_version # NULL
           /\ clients'[c].target_version # clients[c].target_version)
       => \/ DeployStep /\ adminResp'.client = c
                        /\ clients'[c].target_version = adminResp'.version
          \/ \E h \in Slots :
                /\ handlers[h].kind = "report" /\ handlers[h].pc = "write" /\ Moves(h)
                /\ handlers[h].client = c /\ handlers[h].success
                /\ handlers[h].version = clients[c].target_version

\* C23: the latest deploy wins: a client's target_version, once set, changes
\* only by a later deploy (to that deploy's version) or by a success report for
\* that same version; a report for an earlier target leaves it as it is.
C23_LatestDeployWins == [][C23_Step]_vars

\* C24: an agent-facing endpoint serves a request only when its X-API-Key is
\* the token of a registered client.  For the artifact download: bytes are
\* served (200) only if some client is registered whose token the request can
\* carry.
C24_DownloadNeedsToken ==
    (adminResp.op = "download" /\ adminResp.code = 200)
    => \E c \in DOMAIN clients : clients[c].api_key \in Keys \ {NULL, BogusKey}

C25_Step ==
    \A h \in Slots :
       LET r == handlers[h] IN
       (r.kind = "checkin" /\ r.pc \in {"write", "decide"} /\ r.target # NULL
          /\ r.cur = r.target /\ Moves(h))
       => /\ clients'[r.client].target_version = clients[r.client].target_version
          /\ update_logs' = update_logs
          /\ r.pc = "write" => handlers'[h].pc = "decide"
          /\ r.pc = "decide" => /\ handlers'[h].pc = "done"
                                /\ handlers'[h].resp = RespNone

\* C25: a check-in whose current_version equals the target_version the handler
\* read for its client is answered "none"; its steps leave the client's
\* target_version as it is and create no update log.
C25_CheckinAtTargetIsNone == [][C25_Step]_vars

\* C25's case: after one deploy of 1.1.0 a check-in with current_version 1.1.0
\* was answered "none"; the target is still 1.1.0 and no log exists.
C25_Witness ==
    /\ nadmin = 1 /\ adminResp.op = "deploy" /\ adminResp.code = 200
    /\ clients # <<>>
    /\ clients[1].target_version = "1.1.0" /\ clients[1].current_version = "1.1.0"
    /\ update_logs = <<>>
    /\ nreq.checkin = 1 /\ nreq.report = 0
    /\ \E h \in Slots :
          /\ handlers[h].kind = "checkin" /\ handlers[h].pc = "done"
          /\ handlers[h].cur = "1.1.0" /\ handlers[h].resp = RespNone

\* The handler answers in this step with the update directive.
AnswersUpdate(h) ==
    /\ handlers[h].pc # "done" /\ handlers'[h].pc = "done"
    /\ handlers'[h].resp.code = 200 /\ handlers'[h].resp.action = "update"

C26_Step ==
    /\ \A h \in Slots :
          LET r == handlers[h] IN
          (r.kind = "checkin" /\ Moves(h))
          => IF AnswersUpdate(h)
             THEN /\ update_logs' = Append(update_logs,
                         [client_id |-> r.client, from_version |-> r.cur,
                          to_version |-> r.target, status |-> "pending",
                          error_message |-> NULL, completed_at |-> NULL])
                  /\ handlers'[h].resp.target_version = r.target
             ELSE update_logs' = update_logs
    /\ update_logs' # update_logs
          => \E h \in Slots : handlers[h].kind = "checkin" /\ AnswersUpdate(h)

\* C26: a check-in is answered "update" exactly when the request created one
\* new update log, pending, from the request's current_version to the target
\* the handler read (the version the directive names); a check-in answered
\* otherwise creates no log, and no log is created but by such a check-in.
C26_UpdateIffLog == [][C26_Step]_vars

\* C26's case: a check-in with current_version 1.0.0 was answered with the
\* directive for 1.1.0 and the one log of the table is its log.
C26_Witness ==
    /\ Len(update_logs) = 1
    /\ update_logs[1].from_version = "1.0.0" /\ update_logs[1].to_version = "1.1.0"
    /\ update_logs[1].status = "pending"
    /\ \E h \in Slots :
          /\ handlers[h].kind = "checkin" /\ handlers[h].pc = "done"
          /\ handlers[h].cur = "1.0.0"
          /\ handlers[h].resp.action = "update"
          /\ handlers[h].resp.target_version = "1.1.0"

\* Handler h is a check-in past its client lookup that read target v for
\* client c and needs the update.
Dispatching(h, c, v) ==
    /\ handlers[h].kind = "checkin" /\ handlers[h].pc \in {"write", "decide", "log"}
    /\ handlers[h].client = c /\ handlers[h].target = v
    /\ needs_update(v, handlers[h].cur)

\* Handler g is a check-in answered with the directive for v.
Dispatched(g, v) ==
    /\ handlers[g].kind = "checkin" /\ handlers[g].pc = "done"
    /\ handlers[g].resp.code = 200 /\ handlers[g].resp.action = "update"
    /\ handlers[g].resp.target_version = v

\* Handler g is the other check-in of the pair: in flight like h, or already
\* answered with the directive for v.
Partner(g, c, v) == Dispatching(g, c, v) \/ Dispatched(g, v)

\* The pending logs of client c to version v.
LogsTo(tbl, c, v) ==
    {i \in DOMAIN tbl : tbl[i].client_id = c /\ tbl[i].to_version = v
                        /\ tbl[i].status = "pending"}

C27_Step ==
    /\ \A h, g \in Slots, c \in DOMAIN clients, v \in Versions :
          (h # g /\ Dispatching(h, c, v) /\ Partner(g, c, v) /\ Moves(h))
          => /\ handlers'[g] = handlers[g]
             /\ handlers[h].pc = "write" => handlers'[h].pc = "decide"
             /\ handlers[h].pc = "decide" => handlers'[h].pc = "log"
             /\ handlers[h].pc = "log"
                   => /\ AnswersUpdate(h)
                      /\ handlers'[h].resp.target_version = v
                      /\ Cardinality(LogsTo(update_logs', c, v))
                            = Cardinality(LogsTo(update_logs, c, v)) + 1
                      /\ Dispatched(g, v) => Cardinality(LogsTo(update_logs', c, v)) >= 2
    /\ \A h \in Slots :
          LET r == handlers[h] IN
          (r.kind = "report" /\ r.pc = "write" /\ r.success /\ Moves(h))
          => /\ clients'[r.client].current_version = r.version
             /\ clients'[r.client].target_version = NULL
             /\ LogsTo(update_logs', r.client, r.version)
                   = LogsTo(update_logs, r.client, r.version)

\* C27: two check-ins of one client in flight together, both having read
\* target V and both reporting another current_version, are both answered with
\* the directive for V and each appends its own pending log; the step that
\* applies a success report for V leaves the client row with current_version V
\* and target_version NULL in whatever state it lands.
C27_ConcurrentCheckins == [][C27_Step]_vars

\* C27's case: the first check-in to arrive (without current_version) wrote
\* after the second (with 1.0.0), so the two overlapped; both created a log to
\* 1.1.0, and the success report for 1.1.0 was applied.
C27_Witness ==
    /\ clients # <<>>
    /\ nreq.checkin = 2 /\ clients[1].last_seen = 1
    /\ Len(update_logs) = 2
    /\ Cardinality(LogsTo(update_logs, 1, "1.1.0")) = 2
    /\ {update_logs[1].from_version, update_logs[2].from_version} = {NULL, "1.0.0"}
    /\ reported[1] = "1.1.0"
    /\ clients[1].current_version = "1.1.0" /\ clients[1].target_version = NULL
    /\ \E h \in Slots : handlers[h].kind = "report" /\ handlers[h].pc = "done"

C28_Step ==
    \A h \in Slots :
       LET r == handlers[h] IN
       (r.kind = "checkin" /\ r.pc = "write" /\ Moves(h))
       => /\ clients'[r.client].current_version =
                IF r.cur = NULL THEN clients[r.client].current_version ELSE r.cur
          /\ clients'[r.client].status = r.status
          /\ clients'[r.client].last_seen = r.rid
          /\ clients'[r.client].target_version = clients[r.client].target_version
          /\ clients'[r.client].api_key = clients[r.client].api_key
          /\ \A d \in DOMAIN clients : d # r.client => clients'[d] = clients[d]

\* C28: the write of a check-in without current_version leaves the client's
\* stored current_version as it was and still sets status and last_seen; the
\* write of a check-in carrying current_version X sets the stored value to X.
C28_CheckinCoalesce == [][C28_Step]_vars

\* C28's case: the client's first check-in stored 1.0.0; its second, without
\* current_version, has written: last_seen is the second request's time and
\* the stored version is still 1.0.0.
C28_Witness ==
    /\ clients # <<>>
    /\ clients[1].current_version = "1.0.0"
    /\ clients[1].last_seen = 2 /\ clients[1].status = "online"
    /\ nreq.report = 0
    /\ \E h \in Slots :
          /\ handlers[h].kind = "checkin" /\ handlers[h].pc = "decide"
          /\ handlers[h].rid = 2 /\ handlers[h].cur = NULL

\* The extraction of the downloaded bytes into the temporary directory fails.
ExtractFails ==
    /\ txn.data # NULL
    /\ ~Unpack(CreateDirAll(fs, TempPath).fs, TempPath, txn.data).ok

C29_Step ==
    (Daemon /\ apc = "install" /\ apc' # apc /\ ExtractFails)
    => /\ txn'.result = "err" /\ txn'.failed = "install"
       /\ ServiceTree(fs') = ServiceTree(fs)
       /\ txn'.rb = "none"
       /\ restarts' = 0

\* C29: when the extraction of the archive fails, the daemon's transaction
\* ends as failed with service_dir as it was, neither cleared nor rewritten
\* (no rollback pass over it), and the restart command not run.
C29_ExtractFailureLeavesService == [][C29_Step]_vars

\* C30: a transaction of the daemon that took a backup ends in one of two
\* outcomes: success with .dm-version = target, or rolled back, with
\* service_dir's content as it was when the transaction began and .dm-version
\* holding the prior version where there was one.
C30_TwoOutcomes ==
    (Daemon /\ Ended /\ txn.backup_path # <<>>)
    => \/ /\ txn.result = "ok"
          /\ read_current_version(fs, config) = txn.target
       \/ /\ txn.result = "err"
          /\ Payload(fs) = Payload(pre)
          /\ read_current_version(pre, config) # NULL
                => read_current_version(fs, config) = read_current_version(pre, config)

C31_Step ==
    \A h \in Slots :
       (handlers[h].kind = "checkin" /\ handlers[h].pc # "done"
          /\ handlers'[h].pc = "done" /\ handlers'[h].resp.code = 200)
       => (handlers'[h].resp_config.some
              <=> \E f \in ConfigFields : handlers[h].config[f] # NULL)

\* C31: a check-in answered 200 carries the client's config exactly when at
\* least one field of the config the handler read is set, whichever field.
C31_ConfigIffAnyField == [][C31_Step]_vars

C32_Step ==
    /\ (txn.result = "run" /\ txn'.mode = "daemon" /\ txn'.result \in {"ok", "err"})
          => apc' = "report"
    /\ (apc = "report" /\ apc' # apc)
          => /\ Daemon /\ Ended
             /\ sent'.kind = "report"
             /\ sent'.version = txn.target
             /\ sent'.success = (txn.result = "ok")
             /\ apc' = "sleep" /\ txn' = txn
    /\ (sent' # sent /\ apc # "report")
          => apc = "loop" /\ sent'.kind = "checkin"
    /\ (apc = "sleep" /\ apc' # apc)
          => apc' = "loop" /\ sent' = sent
    /\ (apc \in {"download", "verify", "backup", "install", "version", "restart", "health"})
          => sent' = sent

\* C32: for every directive the daemon runs, the end of the transaction is
\* followed by the report step, which sends one report naming the directive's
\* target with success = true exactly when the transaction succeeded; no other
\* step sends a report, and after the report, delivered or not, the daemon
\* sleeps and its next request is a check-in.
C32_OneReportPerDirective == [][C32_Step]_vars

\* C32's case: a transaction succeeded, its report was not delivered, and the
\* daemon is back at the top of the loop with nothing sent since.
C32_Witness ==
    /\ Daemon /\ txn.result = "ok"
    /\ apc = "loop" /\ npoll = 1
    /\ sent.kind = "report" /\ sent.version = txn.target
    /\ sent.success /\ ~sent.delivered

C33_Step ==
    /\ \A h \in Slots :
          (handlers[h].kind = "checkin" /\ Moves(h))
          => \A c \in DOMAIN clients :
                clients'[c].target_version = clients[c].target_version
    /\ \A h \in Slots :
          LET r == handlers[h] IN
          (r.kind = "checkin" /\ r.pc \in {"write", "decide"} /\ r.target # NULL
             /\ r.cur = r.target /\ r.after = NULL /\ Moves(h))
          => /\ r.pc = "write" => clients'[r.client].current_version = r.cur
             /\ r.pc = "decide" => /\ handlers'[h].pc = "done"
                                   /\ handlers'[h].resp = RespNone
             /\ update_logs' = update_logs
    /\ \A c \in DOMAIN clients :
          (clients[c].target_version # NULL
              /\ clients'[c].target_version # clients[c].target_version)
          => \/ DeployStep
             \/ \E h \in Slots :
                   /\ handlers[h].kind = "report" /\ handlers[h].pc = "write"
                   /\ handlers[h].success /\ handlers[h].client = c /\ Moves(h)

\* C33: a check-in carrying current_version V while the target the handler
\* read is V and no success report has been recorded stores V as the client's
\* current_version, is answered "none" and creates no log; no step of a
\* check-in changes any target_version, which stays set until a success
\* report's step (or a deploy).
C33_LostReportKeepsTarget == [][C33_Step]_vars

\* C33's case: 1.1.0 was dispatched (one pending log), no report reached the
\* server, and the next check-in, carrying 1.1.0, was answered "none": the row
\* has current_version 1.1.0 and still target_version 1.1.0.
C33_Witness ==
    /\ clients # <<>>
    /\ nreq.checkin = 2 /\ nreq.report = 0 /\ reported[1] = NULL
    /\ Len(update_logs) = 1 /\ update_logs[1].to_version = "1.1.0"
    /\ clients[1].current_version = "1.1.0" /\ clients[1].target_version = "1.1.0"
    /\ \A h \in Slots : handlers[h].pc = "done"
    /\ \E h \in Slots :
          /\ handlers[h].kind = "checkin" /\ handlers[h].cur = "1.1.0"
          /\ handlers[h].resp = RespNone

C34_Step ==
    (/\ apc = "loop" /\ sent.kind = "report" /\ ~sent.success
     /\ read_current_version(pre, config) # sent.version
     /\ sent'.kind = "checkin")
    => sent'.version # sent.version

\* C34: when the daemon has reported success = false for target V, on a host
\* that was not at V when the transaction began, the check-in it sends next
\* carries a current_version other than V.
C34_FailedTargetNotReported == [][C34_Step]_vars

\* C35: on a host that starts with .dm-version absent or holding a real
\* version, .dm-version never holds the placeholder "unknown", and no check-in
\* the agent sends carries it as current_version.
C35_NoPlaceholder ==
    /\ read_current_version(fs, config) # Unknown
    /\ sent.kind = "checkin" => sent.version # Unknown

\* The pending logs of client c towards version v.
PendingTo(tbl, c, v) ==
    {i \in DOMAIN tbl : /\ tbl[i].client_id = c /\ tbl[i].to_version = v
                        /\ tbl[i].status = "pending"}

C36_Step ==
    /\ \A h \in Slots :
          (/\ handlers[h].kind = "report" /\ handlers[h].pc = "write"
           /\ ~handlers[h].success /\ Moves(h))
          => LET c == handlers[h].client IN
             /\ clients'[c].target_version = clients[c].target_version
             /\ update_logs' = update_logs
    /\ \A h \in Slots :
          LET r == handlers[h] IN
          (/\ r.kind = "checkin" /\ r.pc \in {"decide", "log"}
           /\ r.target # NULL /\ r.cur # r.target /\ Moves(h))
          => /\ r.pc = "decide" => handlers'[h].pc = "log"
             /\ r.pc = "log"
                   => /\ AnswersUpdate(h)
                      /\ handlers'[h].resp.target_version = r.target
                      /\ Cardinality(PendingTo(update_logs', r.client, r.target))
                            = Cardinality(PendingTo(update_logs, r.client, r.target)) + 1
    /\ \A i \in DOMAIN update_logs :
          i \in DOMAIN update_logs' /\ update_logs'[i] = update_logs[i]

\* C36: a failure report leaves target_version and the logs as they are; every
\* check-in that read target V and carries another current_version (or none)
\* goes on to create a log and is answered with the directive for V, the
\* pending logs of (client, V) growing by one; no step closes or removes a log.
C36_FailedUpdateRedispatched == [][C36_Step]_vars

\* C36's case: 1.1.0 was dispatched twice to a client at 1.0.0 and the failure
\* report was recorded (status error, target still 1.1.0): the second check-in
\* was answered with the directive and both logs towards 1.1.0 are pending.
C36_Witness ==
    /\ clients # <<>> /\ clients[1].target_version = "1.1.0"
    /\ clients[1].status = "error" /\ clients[1].current_version = "1.0.0"
    /\ nreq.checkin = 2 /\ nreq.report = 1
    /\ Len(update_logs) = 2
    /\ Cardinality(PendingTo(update_logs, 1, "1.1.0")) = 2
    /\ \E h, g \in Slots :
          /\ handlers[h].kind = "report" /\ handlers[h].pc = "done"
          /\ handlers[h].resp.code = 200
          /\ handlers[g].kind = "checkin" /\ handlers[g].pc = "done"
          /\ handlers[g].cur = "1.0.0"
          /\ handlers[g].resp.action = "update"
          /\ handlers[g].resp.target_version = "1.1.0"

C37_Step ==
    \A c \in DOMAIN clients :
       (clients[c].status = "error" /\ clients'[c].status # "error")
       => \/ DeployStep
          \/ \E h \in Slots :
                /\ handlers[h].kind = "report" /\ handlers[h].pc = "write"
                /\ handlers[h].success /\ handlers[h].client = c /\ Moves(h)

====
